---- MODULE Spec2Model ----
(***************************************************************************)
(* WhisperKey: the evdev hotkey listener (keyboard_handler.py), the        *)
(* recording/session controller (main.py) and the tray status sink         *)
(* (tray_icon.py).  Every listener thread, every recording thread and the  *)
(* success timer is a process of the model; a step of a thread is one      *)
(* access to the state the threads share.                                  *)
(***************************************************************************)
EXTENDS Integers, FiniteSets, Sequences

(* ------------------------------ bounds ------------------------------- *)

\* number of keyboard devices found by discovery (one listener thread each)
NumDevices == 2
\* audio.open succeeds at most this many times in a run
MaxSessions == 2
\* chord callbacks delivered in a run of the two-device specification
MaxTriggers == 3
\* chunks counted in frames (the capture loop reads up to chunks_to_record)
MaxFrames == 1
\* threading.Timer threads of the tray alive at the same time
MaxTimers == 2
\* copies of a history entry asked for in a run
MaxCopies == 1

Devices == 1..NumDevices
Sessions == 1..MaxSessions
\* the recording thread started by the start_recording call that opened stream s
Rec(s) == NumDevices + s
Recorders == {Rec(s) : s \in Sessions}
\* the thread that executes run(): setup, the terminal loop, the shutdown
MainThread == NumDevices + MaxSessions + 1
Threads == Devices \cup Recorders \cup {MainThread}
Timers == 1..MaxTimers

(* --------------------------- keyboard_handler ------------------------ *)

Keys == {"LCTRL", "RCTRL", "LALT", "RALT", "G", "F"}
KeyStates == {"down", "hold", "up"}

START_STOP_KEYS == {"LCTRL", "LALT", "G"}
CLEANUP_KEYS == {"LCTRL", "LALT", "F"}

NormaliseIdentity(code) == code

Normalise(code) ==
    CASE code = "RCTRL" -> "LCTRL"
      [] code = "RALT" -> "LALT"
      [] OTHER -> code

PressedAfterDownOnly(p, code, s) ==
    IF s = "down" THEN p \cup {code} ELSE p \ {code}

\* the pressed set p after an event of state s for the normalised key code
PressedAfter(p, code, s) ==
    IF s \in {"down", "hold"} THEN p \cup {code} ELSE p \ {code}

\* run() always registers toggle_recording_cleanup as the second callback
HasCleanupCallback == TRUE

CheckCombosCleanupFirst(p) ==
    IF HasCleanupCallback /\ CLEANUP_KEYS \subseteq p THEN "CLEANUP"
    ELSE IF START_STOP_KEYS \subseteq p THEN "STANDARD"
    ELSE "none"

\* which callback _check_combos invokes for the pressed set p
CheckCombos(p) ==
    IF START_STOP_KEYS \subseteq p THEN "STANDARD"
    ELSE IF HasCleanupCallback /\ CLEANUP_KEYS \subseteq p THEN "CLEANUP"
    ELSE "none"

\* the letter keys a device can report: the two ends of the alphabet and one
\* letter between them, which stands for every other letter
Letters == {"KEY_A", "KEY_M", "KEY_Z"}

\* what InputDevice(path) and dev.capabilities() give for one device: open is
\* "ok" or the exception raised, query is "ok" or "error", keys the letter keys
\* reported under EV_KEY
DeviceInfos ==
    [open : {"ok"}, query : {"ok"}, keys : SUBSET Letters]
       \cup [open : {"ok"}, query : {"error"}, keys : {{}}]
       \cup [open : {"PermissionError", "OSError"}, query : {"ok"}, keys : {{}}]

\* a keyboard: it can be opened and reports every letter key
Keyboard == [open |-> "ok", query |-> "ok", keys |-> Letters]

\* _find_keyboards: the devices opened and queried whose EV_KEY capabilities
\* contain KEY_A and KEY_Z; a device that raises is skipped
FindKeyboards(info) ==
    {d \in DOMAIN info :
        /\ info[d].open = "ok"
        /\ info[d].query = "ok"
        /\ "KEY_A" \in info[d].keys /\ "KEY_Z" \in info[d].keys}

RunningAfterSetupAlways(keyboards) == TRUE

\* the value of _running when setup_keyboard_listener returns
RunningAfterSetup(keyboards) == keyboards # {}

ReadsAlways(run) == TRUE

\* _listen: the body of the read loop is entered for an event iff _running
Reads(run) == run

(* ------------------------------ main --------------------------------- *)

ToggleBranchSameChord(k, rec) ==
    IF rec /\ k = "STANDARD" THEN "stop" ELSE "start"

\* toggle_recording / toggle_recording_cleanup: stop when recording, else start
ToggleBranch(k, rec) == IF rec THEN "stop" ELSE "start"

ModeForNever(k) == FALSE

\* the value the toggle of chord k stores in cleanup_mode before it starts
ModeFor(k) == (k = "CLEANUP")

CleanupResults == {"text", "empty", "none"}

TextToCopyNoFallback(mode, res) == IF mode THEN "clean" ELSE "raw"

\* which text pyperclip.copy receives: cleanup requested by mode, res returned
\* by cleanup_transcript (a text, an empty text, or None)
TextToCopy(mode, res) == IF mode /\ res = "text" THEN "clean" ELSE "raw"

HistoryTextToCopyCleanedOnly(cleanup, res) == IF cleanup THEN "clean" ELSE "raw"

\* copy_transcript_from_history and _copy_method_menu: the text copied for an
\* entry, cleanup asked for or not, res returned by cleanup_transcript
HistoryTextToCopy(cleanup, res) == IF cleanup /\ res = "text" THEN "clean" ELSE "raw"

\* _history_menu shows the last HistoryWindow entries
HistoryWindow == 9

\* self.transcripts[-9:]
Recent(h) ==
    IF Len(h) <= HistoryWindow THEN h ELSE SubSeq(h, Len(h) - HistoryWindow + 1, Len(h))

\* the index _history_menu computes for the entry picked under number k
AbsIndex(h, shown, k) == Len(h) - Len(shown) + (k - 1)

AddTranscriptDropped(h, e) == h

AddTranscriptReplacing(h, e) == <<e>>

\* _add_transcript_to_history: the entry of a transcription is appended
AddTranscriptToHistory(h, e) == Append(h, e)

InRangeFromMinusOne(index, h) == -1 <= index /\ index < Len(h) /\ Len(h) > 0

\* copy_transcript_from_history: the index names an entry of the history
InRange(index, h) == 0 <= index /\ index < Len(h)

\* h[index] of a Python list
EntryAt(h, index) == h[IF index < 0 THEN Len(h) + index + 1 ELSE index + 1]

IdleFromTimerKeeps(p) == p

\* the state _idle_from_timer gives the status item
IdleFromTimer(p) == "idle"

VARIABLES
    pressed,           \* KeyboardHandler._pressed, one set for all listeners
    running,           \* KeyboardHandler._running
    down,              \* history: per device, the keys whose last event was down/hold
    pc,                \* position of every thread
    kind,              \* the callback a listener thread is executing
    loc,               \* a thread's local: the stream it opened / the session it saved
    solo,              \* history: no other thread used the controller during this callback
    triggers,          \* history: number of chord callbacks invoked so far
    is_recording,      \* WhisperKey.is_recording
    cleanup_mode,      \* WhisperKey.cleanup_mode
    frames,            \* len(WhisperKey.frames)
    stream,            \* WhisperKey.stream: the stream opened last, 0 for None
    openStreams,       \* the audio streams opened and not closed
    recording_thread,  \* WhisperKey.recording_thread, 0 for None
    sessions,          \* number of streams opened so far
    transcripts,       \* WhisperKey.transcripts: the session of each entry's text
    clipboard,         \* last text given to pyperclip.copy
    notifications,     \* number of critical notifications shown
    copies,            \* number of copies of a history entry asked for
    phase,             \* _StatusNotifierItem._state
    timer,             \* TrayIcon._success_timer: a timer, 0 for None
    tstate,            \* position of every threading.Timer thread
    reqmode,           \* history: per session, the chord that started it
    good,              \* history: the sessions transcribed, in order of completion
    devinfo,           \* the input devices: what opening and querying each one gives
    shutdown,          \* which part of the shutdown the main thread has reached
    tray_loop,         \* TrayIcon._loop is running
    recent,            \* _history_menu: the entries displayed
    entry,             \* _copy_method_menu: the entry selected, 0 for none
    clips              \* number of pyperclip.copy calls made

kbvars == <<pressed, running>>
thvars == <<pc, kind, loc>>
ctlvars == <<is_recording, cleanup_mode, frames, stream, openStreams,
             recording_thread, sessions>>
outvars == <<transcripts, clipboard, notifications, copies, clips>>
mainvars == <<devinfo, shutdown, tray_loop, recent, entry>>
trayvars == <<phase, timer, tstate>>
histvars == <<down, solo, triggers, reqmode, good>>
vars == <<pressed, running, down, pc, kind, loc, solo, triggers, is_recording, cleanup_mode,
          frames, stream, openStreams, recording_thread, sessions,
          transcripts, clipboard, notifications, copies, phase, timer, tstate,
          reqmode, good, devinfo, shutdown, tray_loop, recent, entry, clips>>

Init ==
    /\ pressed = {}
    /\ running = TRUE
    /\ down = [d \in Devices |-> {}]
    /\ pc = [t \in Threads |-> IF t \in Devices THEN "listen"
                               ELSE IF t = MainThread THEN "terminal" ELSE "unborn"]
    /\ kind = [d \in Devices |-> "none"]
    /\ loc = [t \in Threads |-> 0]
    /\ solo = [d \in Devices |-> FALSE]
    /\ triggers = 0
    /\ is_recording = FALSE
    /\ cleanup_mode = FALSE
    /\ frames = 0
    /\ stream = 0
    /\ openStreams = {}
    /\ recording_thread = 0
    /\ sessions = 0
    /\ transcripts = <<>>
    /\ clipboard = <<"none", 0>>
    /\ notifications = 0
    /\ copies = 0
    /\ phase = "idle"
    /\ timer = 0
    /\ tstate = [i \in Timers |-> "free"]
    /\ reqmode = [s \in Sessions |-> "none"]
    /\ good = <<>>
    /\ devinfo = [d \in Devices |-> Keyboard]
    /\ shutdown = "no"
    /\ tray_loop = TRUE
    /\ recent = <<>>
    /\ entry = 0
    /\ clips = 0

\* the state when run() has started the tray and calls setup_keyboard_listener:
\* no listener thread exists, the input devices are any the system may have
InitBoot ==
    /\ devinfo \in [Devices -> DeviceInfos]
    /\ pressed = {}
    /\ running = FALSE
    /\ down = [d \in Devices |-> {}]
    /\ pc = [t \in Threads |-> IF t \in Devices THEN "nothread"
                               ELSE IF t = MainThread THEN "setup" ELSE "unborn"]
    /\ kind = [d \in Devices |-> "none"]
    /\ loc = [t \in Threads |-> 0]
    /\ solo = [d \in Devices |-> FALSE]
    /\ triggers = 0
    /\ is_recording = FALSE
    /\ cleanup_mode = FALSE
    /\ frames = 0
    /\ stream = 0
    /\ openStreams = {}
    /\ recording_thread = 0
    /\ sessions = 0
    /\ transcripts = <<>>
    /\ clipboard = <<"none", 0>>
    /\ notifications = 0
    /\ copies = 0
    /\ phase = "idle"
    /\ timer = 0
    /\ tstate = [i \in Timers |-> "free"]
    /\ reqmode = [s \in Sessions |-> "none"]
    /\ good = <<>>
    /\ shutdown = "no"
    /\ tray_loop = TRUE
    /\ recent = <<>>
    /\ entry = 0
    /\ clips = 0

(* ----------------------------- helpers ------------------------------- *)

\* Positions of a thread.  A listener thread: "nothread" (not started),
\* "listen" (blocked in read_loop), "stopped" (ended by the stop flag),
\* "unplugged" (ended by a disconnect), "exited" (ended by an exception of
\* the callback), or inside the callback it invoked; a recording thread: "unborn", "loop",
\* "after", inside stop_recording, "done" or "crashed".
\*   start   main.py 549-270   cleanup_mode written, is_recording read, frames reset
\*   open    main.py 272-313   PyAudio created, device resolved, stream opened
\*   set     main.py 315-320   is_recording set, recording thread started
\*   trayrec main.py 322-324   tray.set_recording
\*   stop    main.py 351       read of is_recording by stop_recording
\*   clear   main.py 355       is_recording cleared
\*   fin     main.py 357-385   join, stream closed, recording saved, set_processing
\*   trans   main.py 388-428   transcription returned, history, clipboard, reset
\*   succ    main.py 430-431   tray.set_success
StopLabels == {"stop", "clear", "fin", "trans", "succ"}
StartLabels == {"start", "open", "set", "trayrec"}

\* thread t is executing toggle_recording*, start_recording or stop_recording
InController(t) ==
    pc[t] \in StartLabels \cup StopLabels

\* where a thread goes when its call returns / when an exception leaves the call
Ret(t) == IF t \in Devices THEN "listen"
          ELSE IF t = MainThread THEN "traystop" ELSE "done"
Exc(t) == IF t \in Devices THEN "exited" ELSE "crashed"

\* thread t takes a controller step to label l, its local becoming v
Step(t, l, v) ==
    /\ pc' = [pc EXCEPT ![t] = l]
    /\ loc' = [loc EXCEPT ![t] = v]
    /\ kind' = IF t \in Devices /\ l \in {"listen", "exited"}
               THEN [kind EXCEPT ![t] = "none"] ELSE kind

\* the canonical key of the modifier-alias table, for the history variable
Canon(k) == IF k = "RCTRL" THEN "LCTRL" ELSE IF k = "RALT" THEN "LALT" ELSE k

(* ------------------------------ TrayIcon ----------------------------- *)

\* Positions of a timer thread: "free" (not started, cancelled or ended),
\* "waiting" (in finished.wait), "fired" (the wait timed out and finished was
\* not set: _idle_from_timer is called), "cleared" (_success_timer set to None)

\* _cancel_success_timer: Timer.cancel ends a timer only while it waits
Cancelled(ts, tm) ==
    IF tm # 0 /\ ts[tm] = "waiting" THEN [ts EXCEPT ![tm] = "free"] ELSE ts

\* set_idle, set_recording, set_processing
SetState(p) ==
    /\ tstate' = Cancelled(tstate, timer)
    /\ timer' = 0
    /\ phase' = p

\* set_success: the state is set and a new timer is started
SetSuccess ==
    LET ts == Cancelled(tstate, timer)
        i == CHOOSE j \in Timers :
                ts[j] = "free" /\ \A l \in Timers : ts[l] = "free" => j <= l
    IN /\ \E j \in Timers : ts[j] = "free"
       /\ tstate' = [ts EXCEPT ![i] = "waiting"]
       /\ timer' = i
       /\ phase' = "success"

\* TrayIcon.stop: the success timer is cancelled, the GLib loop quits
TrayIconStop ==
    /\ tstate' = Cancelled(tstate, timer)
    /\ timer' = 0
    /\ tray_loop' = FALSE
    /\ UNCHANGED phase

(* ------------------------- run(): the start-up ----------------------- *)

\* setup_keyboard_listener: without a keyboard it returns False; otherwise
\* _running is set and one listener thread is started for every keyboard
SetupKeyboardListener ==
    /\ pc[MainThread] = "setup"
    /\ LET keyboards == FindKeyboards(devinfo) IN
       /\ running' = RunningAfterSetup(keyboards)
       /\ pc' = [t \in Threads |->
                   IF t = MainThread
                   THEN IF keyboards = {} THEN "nokeyboard" ELSE "terminal"
                   ELSE IF t \in keyboards THEN "listen" ELSE pc[t]]
    /\ UNCHANGED <<mainvars, pressed, kind, loc, ctlvars, outvars, trayvars>>

\* run() after a failed setup: error notification, tray.stop(), return
RunSetupFailed ==
    /\ pc[MainThread] = "nokeyboard"
    /\ notifications' = notifications + 1
    /\ TrayIconStop
    /\ pc' = [pc EXCEPT ![MainThread] = "exit"]
    /\ UNCHANGED <<devinfo, shutdown, recent, entry, kbvars, kind, loc, ctlvars,
                   transcripts, clipboard, copies, clips>>

(* ------------------------- run(): the shutdown ----------------------- *)

\* Positions of the main thread: "setup", "nokeyboard", "terminal" (in
\* _terminal_loop), "menu" and "method" (in the history menus), "sig" (at
\* "if self.is_recording" of _signal_handler or of the finally of run), inside
\* stop_recording, "traystop" (at tray.stop()), "exit" (the process has ended).
\* shutdown is "no", "handler" (in _signal_handler) or "finally" (in the
\* finally clause of run)

\* SIGINT or SIGTERM is delivered: _signal_handler runs on the main thread
Signal ==
    /\ pc[MainThread] = "terminal"
    /\ shutdown = "no"
    /\ shutdown' = "handler"
    /\ pc' = [pc EXCEPT ![MainThread] = "sig"]
    /\ UNCHANGED <<devinfo, tray_loop, recent, entry, kbvars, kind, loc,
                   ctlvars, outvars, trayvars>>

\* _terminal_loop reads Ctrl+C and breaks: run() reaches its finally clause
TerminalBreak ==
    /\ pc[MainThread] = "terminal"
    /\ shutdown = "no"
    /\ shutdown' = "finally"
    /\ pc' = [pc EXCEPT ![MainThread] = "sig"]
    /\ UNCHANGED <<devinfo, tray_loop, recent, entry, kbvars, kind, loc,
                   ctlvars, outvars, trayvars>>

\* "if self.is_recording: self.stop_recording()" of the handler and the finally
ShutdownCheck ==
    /\ pc[MainThread] = "sig"
    /\ pc' = [pc EXCEPT ![MainThread] = IF is_recording THEN "stop" ELSE "traystop"]
    /\ UNCHANGED <<mainvars, kbvars, kind, loc, ctlvars, outvars, trayvars>>

\* tray.stop(); the handler then raises SystemExit, which run() meets in its
\* finally clause; after the finally clause the process ends
ShutdownTrayStop ==
    /\ pc[MainThread] = "traystop"
    /\ TrayIconStop
    /\ IF shutdown = "handler"
       THEN shutdown' = "finally" /\ pc' = [pc EXCEPT ![MainThread] = "sig"]
       ELSE UNCHANGED shutdown /\ pc' = [pc EXCEPT ![MainThread] = "exit"]
    /\ UNCHANGED <<devinfo, recent, entry, kbvars, kind, loc, ctlvars, outvars>>

(* ----------------------- KeyboardHandler._listen --------------------- *)

\* one iteration of the read loop of device d on an EV_KEY event (k, s): the
\* key is added or discarded; after a down or hold event _check_combos invokes
\* the callback of the chord held, which reads is_recording to stop or start
KeyEvent(d, k, s) ==
    /\ pc[d] = "listen"
    /\ Reads(running)
    /\ pressed' = PressedAfter(pressed, Normalise(k), s)
    /\ LET c == IF s \in {"down", "hold"} THEN CheckCombos(pressed') ELSE "none" IN
       IF c = "none"
       THEN UNCHANGED <<pc, kind>>
       ELSE /\ pc' = [pc EXCEPT ![d] = ToggleBranch(c, is_recording)]
            /\ kind' = [kind EXCEPT ![d] = c]
    /\ UNCHANGED <<mainvars, running, loc, ctlvars, outvars, trayvars>>

DisconnectStopsAll(d) == [t \in Threads |-> IF t \in Devices THEN "unplugged" ELSE pc[t]]

\* the positions of the threads after the listener of device d has ended
DisconnectEffect(d) == [pc EXCEPT ![d] = "unplugged"]

\* read_loop raises OSError (the device is gone): logged, the listener ends
Disconnect(d) ==
    /\ pc[d] = "listen"
    /\ pc' = DisconnectEffect(d)
    /\ UNCHANGED <<mainvars, kbvars, kind, loc, ctlvars, outvars, trayvars>>

\* KeyboardHandler.stop: the cooperative stop flag
Stop ==
    /\ running' = FALSE
    /\ UNCHANGED <<mainvars, pressed, thvars, ctlvars, outvars, trayvars>>

\* the read loop of device d gets an event after stop: break, the device is
\* closed and the listener thread ends
ListenStop(d) ==
    /\ pc[d] = "listen"
    /\ ~Reads(running)
    /\ pc' = [pc EXCEPT ![d] = "stopped"]
    /\ UNCHANGED <<mainvars, kbvars, kind, loc, ctlvars, outvars, trayvars>>

(* --------------------- WhisperKey.start_recording -------------------- *)

\* the toggle stores the mode, start_recording returns if already recording
StartCheck(t) ==
    /\ pc[t] = "start"
    /\ cleanup_mode' = ModeFor(kind[t])
    /\ IF is_recording
       THEN Step(t, Ret(t), 0) /\ UNCHANGED frames
       ELSE Step(t, "open", 0) /\ frames' = 0
    /\ UNCHANGED <<mainvars, kbvars, is_recording, stream, openStreams,
                   recording_thread, sessions, outvars, trayvars>>

StartOpenOk(t) ==
    /\ pc[t] = "open"
    /\ sessions < MaxSessions
    /\ sessions' = sessions + 1
    /\ stream' = sessions + 1
    /\ openStreams' = openStreams \cup {sessions + 1}
    /\ Step(t, "set", sessions + 1)
    /\ UNCHANGED <<mainvars, kbvars, is_recording, cleanup_mode, frames,
                   recording_thread, outvars, trayvars>>

\* audio.open raises: the exception leaves start_recording and the callback
StartOpenFail(t) ==
    /\ pc[t] = "open"
    /\ Step(t, Exc(t), 0)
    /\ UNCHANGED <<mainvars, kbvars, ctlvars, outvars, trayvars>>

StartSet(t) ==
    /\ pc[t] = "set"
    /\ is_recording' = TRUE
    /\ recording_thread' = Rec(loc[t])
    /\ pc' = [pc EXCEPT ![t] = "trayrec", ![Rec(loc[t])] = "loop"]
    /\ loc' = [loc EXCEPT ![t] = 0]
    /\ UNCHANGED <<mainvars, kbvars, kind, cleanup_mode, frames, stream,
                   openStreams, sessions, outvars, trayvars>>

StartTray(t) ==
    /\ pc[t] = "trayrec"
    /\ SetState("recording")
    /\ Step(t, Ret(t), 0)
    /\ UNCHANGED <<mainvars, kbvars, ctlvars, outvars>>

(* ---------------------- WhisperKey._record_audio --------------------- *)

\* one iteration of the capture loop: is_recording is set and a chunk is read
RecRead(r) ==
    /\ r \in Recorders
    /\ pc[r] = "loop"
    /\ is_recording
    /\ stream \in openStreams
    /\ frames < MaxFrames
    /\ frames' = frames + 1
    /\ UNCHANGED <<mainvars, kbvars, thvars, is_recording, cleanup_mode, stream,
                   openStreams, recording_thread, sessions, outvars, trayvars>>

\* the loop ends: chunks_to_record iterations done (the time limit),
\* is_recording found false, or stream.read raised
RecBreak(r) ==
    /\ r \in Recorders
    /\ pc[r] = "loop"
    /\ pc' = [pc EXCEPT ![r] = "after"]
    /\ UNCHANGED <<mainvars, kbvars, kind, loc, ctlvars, outvars, trayvars>>

\* "if self.is_recording: self.stop_recording()" and stop_recording's own check
RecAfter(r) ==
    /\ r \in Recorders
    /\ pc[r] = "after"
    /\ IF is_recording
       THEN Step(r, "clear", 0)
       ELSE pc' = [pc EXCEPT ![r] = "done"] /\ UNCHANGED <<kind, loc>>
    /\ UNCHANGED <<mainvars, kbvars, ctlvars, outvars, trayvars>>

(* ---------------------- WhisperKey.stop_recording -------------------- *)

StopCheck(t) ==
    /\ pc[t] = "stop"
    /\ Step(t, IF is_recording THEN "clear" ELSE Ret(t), 0)
    /\ UNCHANGED <<mainvars, kbvars, ctlvars, outvars, trayvars>>

StopClear(t) ==
    /\ pc[t] = "clear"
    /\ is_recording' = FALSE
    /\ Step(t, "fin", 0)
    /\ UNCHANGED <<mainvars, kbvars, cleanup_mode, frames, stream, openStreams,
                   recording_thread, sessions, outvars, trayvars>>

\* Thread.join raises RuntimeError when the caller is the thread it joins
StopJoinSelf(t) ==
    /\ pc[t] = "fin"
    /\ recording_thread = t
    /\ Step(t, Exc(t), 0)
    /\ UNCHANGED <<mainvars, kbvars, ctlvars, outvars, trayvars>>

\* join returned (thread ended or 1 s passed), stream closed, recording saved
StopSaveOk(t) ==
    /\ pc[t] = "fin"
    /\ recording_thread # t
    /\ openStreams' = openStreams \ {stream}
    /\ SetState("processing")
    /\ Step(t, "trans", stream)
    /\ UNCHANGED <<mainvars, kbvars, is_recording, cleanup_mode, frames, stream,
                   recording_thread, sessions, outvars>>

\* save_recording returns nothing: set_idle, error notification, return
StopSaveFail(t) ==
    /\ pc[t] = "fin"
    /\ recording_thread # t
    /\ openStreams' = openStreams \ {stream}
    /\ SetState("idle")
    /\ notifications' = notifications + 1
    /\ Step(t, Ret(t), 0)
    /\ UNCHANGED <<mainvars, kbvars, is_recording, cleanup_mode, frames, stream,
                   recording_thread, sessions, transcripts, clipboard, copies, clips>>

StopTransFailSilent(t) ==
    /\ pc[t] = "trans"
    /\ Step(t, Ret(t), 0)
    /\ UNCHANGED <<mainvars, kbvars, ctlvars, outvars, trayvars>>

\* transcribe_audio returns nothing: set_idle, error notification, return
StopTransFail(t) ==
    /\ pc[t] = "trans"
    /\ SetState("idle")
    /\ notifications' = notifications + 1
    /\ Step(t, Ret(t), 0)
    /\ UNCHANGED <<mainvars, kbvars, ctlvars, transcripts, clipboard, copies, clips>>

\* transcription appended to the history, the text copied, cleanup_mode reset;
\* res is what cleanup_transcript returns when it is called
StopCopy(t, res) ==
    /\ pc[t] = "trans"
    /\ transcripts' = AddTranscriptToHistory(transcripts, loc[t])
    /\ clipboard' = <<TextToCopy(cleanup_mode, res), loc[t]>>
    /\ clips' = clips + 1
    /\ cleanup_mode' = FALSE
    /\ Step(t, "succ", 0)
    /\ UNCHANGED <<mainvars, kbvars, is_recording, frames, stream, openStreams,
                   recording_thread, sessions, notifications, copies, trayvars>>

StopSuccess(t) ==
    /\ pc[t] = "succ"
    /\ SetSuccess
    /\ Step(t, Ret(t), 0)
    /\ UNCHANGED <<mainvars, kbvars, ctlvars, outvars>>

(* ---------------- WhisperKey.copy_transcript_from_history ------------- *)

CopyFromHistoryStoresMode(index, cleanup, res) ==
    /\ copies < MaxCopies
    /\ copies' = copies + 1
    /\ cleanup_mode' = cleanup
    /\ IF InRange(index, transcripts)
       THEN /\ clipboard' = <<HistoryTextToCopy(cleanup, res), EntryAt(transcripts, index)>>
            /\ clips' = clips + 1
            /\ SetSuccess
       ELSE UNCHANGED <<clipboard, clips, trayvars>>
    /\ UNCHANGED <<mainvars, kbvars, thvars, is_recording, frames, stream, openStreams,
                   recording_thread, sessions, transcripts, notifications>>

\* the call made for a menu entry: entry index of the history, cleaned or raw
CopyFromHistory(index, cleanup, res) ==
    /\ copies < MaxCopies
    /\ copies' = copies + 1
    /\ IF InRange(index, transcripts)
       THEN /\ clipboard' = <<HistoryTextToCopy(cleanup, res), EntryAt(transcripts, index)>>
            /\ clips' = clips + 1
            /\ SetSuccess
       ELSE UNCHANGED <<clipboard, clips, trayvars>>
    /\ UNCHANGED <<mainvars, kbvars, thvars, ctlvars, transcripts, notifications>>

(* ---------------------- the terminal history menu -------------------- *)

\* _history_menu displays the entries: H was read by _terminal_loop, or the
\* menu is displayed again after 30 s without a key
HistoryMenuShow ==
    /\ pc[MainThread] \in {"terminal", "menu"}
    /\ shutdown = "no"
    /\ recent' = Recent(transcripts)
    /\ pc' = [pc EXCEPT ![MainThread] = "menu"]
    /\ UNCHANGED <<devinfo, shutdown, tray_loop, entry, kbvars, kind, loc,
                   ctlvars, outvars, trayvars>>

\* ESC or Ctrl+C in the history menu
HistoryMenuBack ==
    /\ pc[MainThread] = "menu"
    /\ recent' = <<>>
    /\ pc' = [pc EXCEPT ![MainThread] = "terminal"]
    /\ UNCHANGED <<devinfo, shutdown, tray_loop, entry, kbvars, kind, loc,
                   ctlvars, outvars, trayvars>>

\* the digit k is read: the index is computed from the history as it is now,
\* and _copy_method_menu takes the entry at that index
HistoryMenuPick(k) ==
    /\ pc[MainThread] = "menu"
    /\ 1 <= k /\ k <= Len(recent)
    /\ entry' = EntryAt(transcripts, AbsIndex(transcripts, recent, k))
    /\ pc' = [pc EXCEPT ![MainThread] = "method"]
    /\ UNCHANGED <<devinfo, shutdown, tray_loop, recent, kbvars, kind, loc,
                   ctlvars, outvars, trayvars>>

\* ESC or Ctrl+C in the copy method menu: 'back', the history is displayed again
CopyMethodBack ==
    /\ pc[MainThread] = "method"
    /\ entry' = 0
    /\ recent' = Recent(transcripts)
    /\ pc' = [pc EXCEPT ![MainThread] = "menu"]
    /\ UNCHANGED <<devinfo, shutdown, tray_loop, kbvars, kind, loc,
                   ctlvars, outvars, trayvars>>

\* C or I in the copy method menu: the text is copied, set_success, 'done'
CopyMethodCopy(improved, res) ==
    /\ pc[MainThread] = "method"
    /\ copies < MaxCopies
    /\ copies' = copies + 1
    /\ clipboard' = <<HistoryTextToCopy(improved, res), entry>>
    /\ clips' = clips + 1
    /\ SetSuccess
    /\ entry' = 0
    /\ recent' = <<>>
    /\ pc' = [pc EXCEPT ![MainThread] = "terminal"]
    /\ UNCHANGED <<devinfo, shutdown, tray_loop, kbvars, kind, loc, ctlvars,
                   transcripts, notifications>>

HistoryMenu ==
    \/ HistoryMenuShow \/ HistoryMenuBack \/ CopyMethodBack
    \/ \E k \in 1..HistoryWindow : HistoryMenuPick(k)
    \/ \E improved \in BOOLEAN, res \in CleanupResults : CopyMethodCopy(improved, res)

(* ------------------------- threading.Timer.run ----------------------- *)

\* the wait timed out before cancel was called
TimerExpire(i) ==
    /\ tstate[i] = "waiting"
    /\ tstate' = [tstate EXCEPT ![i] = "fired"]
    /\ UNCHANGED <<mainvars, kbvars, thvars, ctlvars, outvars, phase, timer>>

\* _idle_from_timer: self._success_timer = None
TimerClear(i) ==
    /\ tstate[i] = "fired"
    /\ tstate' = [tstate EXCEPT ![i] = "cleared"]
    /\ timer' = 0
    /\ UNCHANGED <<mainvars, kbvars, thvars, ctlvars, outvars, phase>>

\* _idle_from_timer: self._sni.set_state("idle"); the thread ends
TimerSetIdle(i) ==
    /\ tstate[i] = "cleared"
    /\ tstate' = [tstate EXCEPT ![i] = "free"]
    /\ phase' = IdleFromTimer(phase)
    /\ UNCHANGED <<mainvars, kbvars, thvars, ctlvars, outvars, timer>>

TimerThread(i) == TimerExpire(i) \/ TimerClear(i) \/ TimerSetIdle(i)

(* -------------------------- history variables ------------------------ *)

\* down follows the events device d delivers
TrackDown(d, k, s) ==
    down' = [down EXCEPT ![d] = IF s \in {"down", "hold"}
                                THEN @ \cup {Canon(k)} ELSE @ \ {Canon(k)}]

\* solo[d] is set when the callback of d is entered while no other thread is in
\* the controller, and is reset by every controller step of another thread
TrackSolo(t) ==
    solo' = [d \in Devices |->
               IF d = t
               THEN IF pc[d] = "listen"
                    THEN pc'[d] # "listen" /\ \A u \in Threads \ {d} : ~InController(u)
                    ELSE solo[d] /\ pc'[d] \notin {"listen", "exited"}
               ELSE solo[d] /\ ~(InController(t) \/ pc'[t] \in StopLabels)]

\* triggers counts the chord callbacks; at most MaxTriggers are delivered
Budget(d) ==
    IF pc'[d] # "listen"
    THEN triggers < MaxTriggers /\ triggers' = triggers + 1
    ELSE UNCHANGED triggers

\* reqmode records the chord whose callback opened each session
TrackMode(t) ==
    reqmode' = IF pc[t] = "open" /\ pc'[t] = "set"
               THEN [reqmode EXCEPT ![sessions'] = kind[t]] ELSE reqmode

\* good lists each session once, when a transcription of it is first stored
TrackGood(t) ==
    good' = IF pc[t] = "trans" /\ pc'[t] = "succ"
               /\ \A i \in DOMAIN good : good[i] # loc[t]
            THEN Append(good, loc[t]) ELSE good

(* --------------------------- specifications -------------------------- *)

\* the steps of a toggle callback called by a listener thread
ChordCall(t) ==
    \/ StartCheck(t) \/ StartOpenOk(t) \/ StartOpenFail(t)
    \/ StartSet(t) \/ StartTray(t)
    \/ StopCheck(t) \/ StopClear(t)
    \/ StopSaveOk(t) \/ StopSaveFail(t) \/ StopTransFail(t)
    \/ (\E res \in CleanupResults : StopCopy(t, res))
    \/ StopSuccess(t)

Controller(t) == ChordCall(t) \/ StopJoinSelf(t)

Recorder(r) == RecRead(r) \/ RecBreak(r) \/ RecAfter(r)

\* the steps of the listener and recording threads of a program with one
\* keyboard device
OneDeviceThreads ==
    \E t \in {1} \cup Recorders :
       /\ Controller(t) \/ Recorder(t)
       /\ TrackSolo(t) /\ TrackMode(t) /\ TrackGood(t)
       /\ UNCHANGED <<down, triggers>>

\* the steps of the timer threads
TimerThreads == \E i \in Timers : TimerThread(i) /\ UNCHANGED histvars

\* all devices, at most MaxTriggers chord callbacks; the events are the down and
\* up events of the chord keys (a hold event acts as a down event, a right
\* modifier as the left one); the run ends before a success timer expires
Next ==
    \/ \E d \in Devices, k \in START_STOP_KEYS \cup CLEANUP_KEYS, s \in {"down", "up"} :
          KeyEvent(d, k, s) /\ Budget(d) /\ UNCHANGED <<down, solo, reqmode, good>>
    \/ \E t \in Threads :
          /\ Controller(t) \/ Recorder(t)
          /\ TrackGood(t) /\ UNCHANGED <<down, solo, triggers, reqmode>>

Spec == Init /\ [][Next]_vars

\* a single simulated device: only device 1 delivers events; the run ends
\* before a success timer expires
NextOneDevice ==
    \/ \E k \in Keys, s \in KeyStates :
          /\ KeyEvent(1, k, s) /\ TrackDown(1, k, s) /\ TrackSolo(1)
          /\ UNCHANGED <<triggers, reqmode, good>>
    \/ OneDeviceThreads

SpecOneDevice == Init /\ [][NextOneDevice]_vars

\* a single device whose user presses the right-hand modifiers only; the run
\* ends before a success timer expires
NextRightModifiers ==
    \/ \E k \in {"RCTRL", "RALT", "G", "F"}, s \in KeyStates :
          /\ KeyEvent(1, k, s) /\ TrackDown(1, k, s) /\ TrackSolo(1)
          /\ UNCHANGED <<triggers, reqmode, good>>
    \/ OneDeviceThreads

SpecRightModifiers == Init /\ [][NextRightModifiers]_vars

\* all devices deliver events and may be unplugged; the audio device cannot be
\* opened, so every start_recording ends at audio.open
NextKeyboards ==
    \/ \E d \in Devices, k \in Keys, s \in KeyStates :
          /\ KeyEvent(d, k, s) /\ TrackDown(d, k, s)
          /\ UNCHANGED <<solo, triggers, reqmode, good>>
    \/ \E d \in Devices : Disconnect(d) /\ UNCHANGED histvars
    \/ \E d \in Devices :
          (StartCheck(d) \/ StartOpenFail(d)) /\ UNCHANGED histvars

SpecKeyboards == Init /\ [][NextKeyboards]_vars

\* all devices deliver events and may be unplugged, and KeyboardHandler.stop
\* is called at any moment
NextStop ==
    \/ NextKeyboards
    \/ Stop /\ UNCHANGED histvars
    \/ \E d \in Devices : ListenStop(d) /\ UNCHANGED histvars

SpecStop == Init /\ [][NextStop]_vars

\* the start of run() on any set of input devices; the audio device cannot be
\* opened, so every start_recording ends at audio.open
NextStartup ==
    \/ (SetupKeyboardListener \/ RunSetupFailed) /\ UNCHANGED histvars
    \/ \E d \in Devices, k \in START_STOP_KEYS :
          /\ KeyEvent(d, k, "down") /\ TrackDown(d, k, "down")
          /\ UNCHANGED <<solo, triggers, reqmode, good>>
    \/ \E d \in Devices :
          (StartCheck(d) \/ StartOpenFail(d)) /\ UNCHANGED histvars

SpecStartup == InitBoot /\ [][NextStartup]_vars

\* a single device whose sessions are all stopped by a chord: the capture loop
\* ends when the stop has cleared is_recording, before the time limit, and no
\* read fails
NextSequential ==
    \/ \E k \in Keys, s \in KeyStates :
          /\ KeyEvent(1, k, s) /\ TrackDown(1, k, s) /\ TrackSolo(1)
          /\ UNCHANGED <<triggers, reqmode, good>>
    \/ /\ ChordCall(1)
       /\ TrackSolo(1) /\ TrackMode(1) /\ TrackGood(1)
       /\ UNCHANGED <<down, triggers>>
    \/ \E r \in Recorders :
          /\ RecRead(r) \/ (RecBreak(r) /\ ~is_recording) \/ RecAfter(r)
          /\ UNCHANGED histvars
    \/ TimerThreads

SpecSequential == Init /\ [][NextSequential]_vars

\* a single device whose user presses the STANDARD chord and keeps it held:
\* the keys go down and the key repeat delivers hold events
NextHeldChord ==
    \/ \E k \in START_STOP_KEYS, s \in {"down", "hold"} :
          /\ KeyEvent(1, k, s) /\ TrackDown(1, k, s) /\ TrackSolo(1)
          /\ UNCHANGED <<triggers, reqmode, good>>
    \/ OneDeviceThreads
    \/ TimerThreads

\* a timer thread that can take a step eventually takes it
SpecRevert ==
    /\ Init /\ [][NextHeldChord]_vars
    /\ \A i \in Timers : WF_vars(TimerThread(i) /\ UNCHANGED histvars)

\* a single device, and a caller of copy_transcript_from_history
NextMenu ==
    \/ NextHeldChord
    \/ \E index \in -1..MaxSessions, cleanup \in BOOLEAN, res \in CleanupResults :
          CopyFromHistory(index, cleanup, res) /\ UNCHANGED histvars

SpecMenu == Init /\ [][NextMenu]_vars

\* a single device whose sessions are all stopped by a chord or by the
\* shutdown, and a shutdown by a signal or by Ctrl+C in the terminal; nothing
\* runs once the process has ended
NextShutdown ==
    /\ pc[MainThread] # "exit"
    /\ \/ \E k \in START_STOP_KEYS :
             /\ KeyEvent(1, k, "down") /\ TrackDown(1, k, "down") /\ TrackSolo(1)
             /\ UNCHANGED <<triggers, reqmode, good>>
       \/ /\ ChordCall(1)
          /\ TrackSolo(1) /\ TrackMode(1) /\ TrackGood(1)
          /\ UNCHANGED <<down, triggers>>
       \/ \E r \in Recorders :
             /\ RecRead(r) \/ (RecBreak(r) /\ ~is_recording) \/ RecAfter(r)
             /\ UNCHANGED histvars
       \/ TimerThreads
       \/ (Signal \/ TerminalBreak \/ ShutdownCheck \/ ShutdownTrayStop)
             /\ UNCHANGED histvars
       \/ /\ ChordCall(MainThread)
          /\ TrackSolo(MainThread) /\ TrackGood(MainThread)
          /\ UNCHANGED <<down, triggers, reqmode>>

SpecShutdown == Init /\ [][NextShutdown]_vars

\* a single device whose sessions are all stopped by a chord, the user of the
\* terminal menu, and a caller of copy_transcript_from_history; the run ends
\* before a success timer expires
NextTerminal ==
    \/ \E k \in START_STOP_KEYS \cup CLEANUP_KEYS :
          /\ KeyEvent(1, k, "down") /\ TrackDown(1, k, "down") /\ TrackSolo(1)
          /\ UNCHANGED <<triggers, reqmode, good>>
    \/ /\ ChordCall(1)
       /\ TrackSolo(1) /\ TrackMode(1) /\ TrackGood(1)
       /\ UNCHANGED <<down, triggers>>
    \/ \E r \in Recorders :
          /\ RecRead(r) \/ (RecBreak(r) /\ ~is_recording) \/ RecAfter(r)
          /\ UNCHANGED histvars
    \/ HistoryMenu /\ UNCHANGED histvars
    \/ \E index \in -1..MaxSessions, cleanup \in BOOLEAN, res \in CleanupResults :
          CopyFromHistory(index, cleanup, res) /\ UNCHANGED histvars

SpecTerminal == Init /\ [][NextTerminal]_vars

\* two keyboards whose keys go down, at most MaxTriggers chord callbacks; every
\* session is stopped by a chord, and the run ends before a success timer
\* expires
NextTwoKeyboards ==
    \/ \E d \in Devices, k \in START_STOP_KEYS \cup CLEANUP_KEYS :
          /\ KeyEvent(d, k, "down") /\ Budget(d) /\ TrackDown(d, k, "down")
          /\ UNCHANGED <<solo, reqmode, good>>
    \/ \E d \in Devices :
          /\ ChordCall(d)
          /\ TrackMode(d) /\ TrackGood(d)
          /\ UNCHANGED <<down, solo, triggers>>
    \/ \E r \in Recorders :
          /\ RecRead(r) \/ (RecBreak(r) /\ ~is_recording) \/ RecAfter(r)
          /\ UNCHANGED histvars

SpecTwoKeyboards == Init /\ [][NextTwoKeyboards]_vars

(* ------------------------------- claims ------------------------------ *)

\* the transcription of a stopped session is in flight, the status is Processing
Processing == phase = "processing" /\ \E t \in Threads : pc[t] = "trans"

\* C1: at most one recording session is open at any time: start_recording never
\* opens a second audio stream while an earlier one has not been closed.
C1_AtMostOneOpenSession == Cardinality(openStreams) <= 1

\* C2: each session is stopped and processed at most once: no two threads
\* transcribe the same session and no session is appended to the history twice.
C2_ProcessedAtMostOnce ==
    /\ \A t, u \in Threads :
          (t # u /\ pc[t] = "trans" /\ pc[u] = "trans") => loc[t] # loc[u]
    /\ \A i, j \in DOMAIN transcripts : i # j => transcripts[i] # transcripts[j]

\* C3: a chord event delivered while a stopped session is being processed is a
\* no-op: the callback returns at once, starting nothing and changing nothing.
C3_ChordWhileProcessingIsNoOp ==
    [][\A d \in Devices :
          (Processing /\ \E k \in Keys, s \in KeyStates : KeyEvent(d, k, s))
             => (pc'[d] = "listen" /\ UNCHANGED <<ctlvars, phase>>)]_vars

\* C4: a chord callback entered from Idle that runs without interference ends
\* with a session recording, the status Recording, and cleanup_mode false for
\* the STANDARD chord and true for the CLEANUP chord.
C4_StartFromIdle ==
    [][\A d \in Devices :
          (solo[d] /\ pc[d] = "trayrec" /\ pc'[d] = "listen")
             => /\ is_recording'
                /\ cleanup_mode' = (kind[d] = "CLEANUP")
                /\ phase' = "recording"
                /\ stream' \in openStreams']_vars

\* a CLEANUP chord from Idle has started a session in cleanup mode
C4_Witness ==
    /\ pc[1] = "listen" /\ is_recording /\ cleanup_mode
    /\ phase = "recording" /\ sessions = 1 /\ transcripts = <<>>

\* C5: while recording, a chord of either kind takes the stop path; the stop
\* ends the session (is_recording cleared, stream closed, status Processing)
\* whichever chord started it, and no step of the stop opens a session.
C5_StopSymmetric ==
    [][\A d \in Devices :
          /\ (is_recording /\ pc[d] = "listen" /\ pc'[d] # "listen")
                => pc'[d] = "stop"
          /\ (solo[d] /\ pc[d] = "stop" /\ pc'[d] # "stop") => pc'[d] = "clear"
          /\ (solo[d] /\ pc[d] = "clear" /\ pc'[d] # "clear")
                => (~is_recording' /\ pc'[d] = "fin")
          /\ (solo[d] /\ pc[d] = "fin" /\ pc'[d] = "trans")
                => (~is_recording' /\ stream \notin openStreams'
                    /\ phase' = "processing")
          /\ (pc[d] \in StopLabels /\ pc'[d] # pc[d])
                => (sessions' = sessions /\ openStreams' \subseteq openStreams
                    /\ (is_recording' => is_recording))]_vars

\* the CLEANUP chord is stopping a session that the STANDARD chord started
C5_Witness ==
    /\ pc[1] = "trans" /\ kind[1] = "CLEANUP" /\ solo[1]
    /\ ~cleanup_mode /\ phase = "processing" /\ sessions = 1

\* C6: while a chord stays held, a hold event or a repeated down event for a
\* key already in the pressed set does not invoke the toggle callback again.
C6_HeldChordDoesNotRefire ==
    [][\A d \in Devices, k \in Keys, s \in {"down", "hold"} :
          (KeyEvent(d, k, s) /\ Canon(k) \in pressed
             /\ ({"LCTRL", "LALT", "G"} \subseteq pressed
                 \/ {"LCTRL", "LALT", "F"} \subseteq pressed))
          => pc'[d] = "listen"]_vars

\* C7: on every down or hold event the callback invoked is STANDARD if
\* Ctrl, Alt, G are all pressed, else CLEANUP if Ctrl, Alt, F are, else none.
C7_ChordPriority ==
    [][\A d \in Devices, k \in Keys, s \in {"down", "hold"} :
          KeyEvent(d, k, s) =>
             IF {"LCTRL", "LALT", "G"} \subseteq pressed'
             THEN pc'[d] # "listen" /\ kind'[d] = "STANDARD"
             ELSE IF {"LCTRL", "LALT", "F"} \subseteq pressed'
             THEN pc'[d] # "listen" /\ kind'[d] = "CLEANUP"
             ELSE pc'[d] = "listen" /\ kind'[d] = "none"]_vars

\* both chords are contained in the pressed set and STANDARD was invoked
C7_Witness ==
    /\ pc[1] \in {"start", "stop"} /\ kind[1] = "STANDARD"
    /\ pressed = {"LCTRL", "LALT", "G", "F"}

\* C8: after any sequence of events of one device the pressed set is the set of
\* canonical keys whose last event was a down or hold; an up event for a key
\* that is not pressed changes nothing and does not end the listener.
C8_PressedIsNetOfEvents ==
    /\ [](pressed = down[1])
    /\ [][\A k \in Keys :
            (KeyEvent(1, k, "up") /\ Canon(k) \notin pressed)
               => (pressed' = pressed /\ pc'[1] = "listen")]_vars

\* keys were pressed and released and the listener is still reading events
C8_Witness ==
    /\ pressed = {"LALT", "F"} /\ down[1] = {"LALT", "F"}
    /\ pc[1] = "listen" /\ sessions = 1

\* C9: an event of a right-hand modifier has exactly the effect of the same
\* event of the left-hand modifier: the left key enters or leaves the pressed
\* set and the same callback is invoked.
C9_RightModifierActsAsLeft ==
    [][\A s \in KeyStates :
          /\ KeyEvent(1, "RCTRL", s) => KeyEvent(1, "LCTRL", s)
          /\ KeyEvent(1, "RALT", s) => KeyEvent(1, "LALT", s)
          /\ KeyEvent(1, "RCTRL", "up") => "LCTRL" \notin pressed'
          /\ KeyEvent(1, "RALT", "up") => "LALT" \notin pressed'
          /\ pressed' \subseteq {"LCTRL", "LALT", "G", "F"}]_vars

\* the STANDARD chord was completed by a keyboard that sent right modifiers only
C9_Witness ==
    /\ pc[1] = "start" /\ kind[1] = "STANDARD"
    /\ pressed = {"LCTRL", "LALT", "G"}

\* the pressed set the listener of device d matches chords against
PressedOf(d) == pressed

\* C10: a key event of one device never changes the pressed set of another
\* device's listener, and a callback is invoked on a device only when all keys
\* of its chord are down on that device.
C10_PressedSetPerListener ==
    [][\A a \in Devices :
          /\ (\E k \in Keys, s \in KeyStates : KeyEvent(a, k, s))
                => \A b \in Devices \ {a} : PressedOf(b)' = PressedOf(b)
          /\ (pc[a] = "listen" /\ pc'[a] # "listen")
                => IF kind'[a] = "STANDARD"
                   THEN {"LCTRL", "LALT", "G"} \subseteq down'[a]
                   ELSE {"LCTRL", "LALT", "F"} \subseteq down'[a]]_vars

\* C11: when save_recording or transcribe_audio returns nothing, the stop leaves
\* the history and the clipboard unchanged, shows one failure notification, sets
\* the status to idle and returns with the controller not recording, so that
\* the next chord takes the start branch.
C11_FailedStopReturnsToIdle ==
    [][\A t \in Threads :
          (StopSaveFail(t) \/ StopTransFail(t))
             => /\ transcripts' = transcripts
                /\ clipboard' = clipboard
                /\ notifications' = notifications + 1
                /\ phase' = "idle"
                /\ ~is_recording'
                /\ pc'[t] = Ret(t)
                /\ \A k \in {"STANDARD", "CLEANUP"} :
                      ToggleBranch(k, is_recording') = "start"]_vars

\* the first session failed and the next chord has started a second session
C11_Witness ==
    /\ notifications = 1 /\ transcripts = <<>> /\ clipboard = <<"none", 0>>
    /\ sessions = 2 /\ is_recording /\ phase = "recording" /\ pc[1] = "listen"

\* C12: a stop whose transcription succeeded copies the cleaned text exactly
\* when the session was started by the CLEANUP chord and cleanup_transcript
\* returned a text; in every other case it copies the raw transcription, and it
\* goes on to the success status with the transcription stored, never to a
\* failure.
C12_CleanupFallsBackToRaw ==
    [][\A d \in Devices, res \in CleanupResults :
          StopCopy(d, res)
             => /\ clipboard' = <<IF reqmode[loc[d]] = "CLEANUP" /\ res = "text"
                                  THEN "clean" ELSE "raw", loc[d]>>
                /\ pc'[d] = "succ"
                /\ notifications' = notifications
                /\ transcripts' = Append(transcripts, loc[d])]_vars

\* a session started by the CLEANUP chord ended with the raw text copied
C12_Witness ==
    /\ reqmode[1] = "CLEANUP" /\ clipboard = <<"raw", 1>>
    /\ transcripts = <<1>> /\ phase = "success" /\ notifications = 0

\* C13: the history holds exactly one entry, the raw transcription, for every
\* session that ended with a successful transcription, in the order in which
\* the sessions completed, and no entry for a session that failed.
C13_HistoryIsTheSuccessfulSessions == transcripts = good

\* C14: the history is append-only: at every step the history before the step
\* is a prefix of the history after it, and the only step that changes it is
\* the append of stop_recording.
C14_HistoryAppendOnly ==
    [][/\ Len(transcripts') >= Len(transcripts)
       /\ SubSeq(transcripts', 1, Len(transcripts)) = transcripts
       /\ transcripts' # transcripts
             => \E t \in Threads, res \in CleanupResults : StopCopy(t, res)]_vars

\* with two entries stored, the first entry was copied from the history
C14_Witness ==
    /\ transcripts = <<1, 2>> /\ copies = 1 /\ clipboard = <<"clean", 1>>

\* C15: a call of copy_transcript_from_history with a negative index or an
\* index not below the length of the history returns having changed nothing:
\* not the clipboard, the history, the recording flag, the status or any thread.
C15_CopyOutOfRangeIsNoOp ==
    [][\A index \in -1..MaxSessions, cleanup \in BOOLEAN, res \in CleanupResults :
          (CopyFromHistory(index, cleanup, res)
             /\ (index < 0 \/ index >= Len(transcripts)))
          => UNCHANGED <<clipboard, transcripts, is_recording, trayvars, thvars>>]_vars

\* a call was made while the history was empty, and a session is recording
C15_Witness ==
    /\ copies = 1 /\ transcripts = <<>> /\ clipboard = <<"none", 0>>
    /\ is_recording /\ phase = "recording"

\* C16: once the status is success it becomes idle, unless a chord callback is
\* triggered first; and an idle status stays idle until a step of a chord
\* callback changes it.
C16_SuccessRevertsToIdle ==
    /\ (phase = "success") ~> (phase = "idle" \/ \E t \in Threads : InController(t))
    /\ [][(phase = "idle" /\ phase' # "idle")
            => \E t \in Threads : InController(t) /\ pc'[t] # pc[t]]_vars

\* the only session succeeded and its timer has set the status back to idle
C16_Witness ==
    /\ phase = "idle" /\ transcripts = <<1>> /\ sessions = 1 /\ timer = 0
    /\ pc[1] = "listen" /\ \A i \in Timers : tstate[i] = "free"

\* C17: once set_recording or set_processing has been applied, no step of a
\* success timer started earlier changes the status: while the status is
\* recording or processing every timer step leaves it as it is.
C17_NewPhaseSupersedesTimer ==
    [][(phase \in {"recording", "processing"} /\ \E i \in Timers : TimerThread(i))
          => phase' = phase]_vars

\* C18: only the start and stop path of the controller changes the status: a
\* copy from the history never changes it, and while a session is open no step
\* moves the status from recording to success or idle, nor from processing to
\* success or idle other than the step of the stop that processes the session.
C18_PhaseOnlyByController ==
    [][/\ (\E index \in -1..MaxSessions, cleanup \in BOOLEAN, res \in CleanupResults :
               CopyFromHistory(index, cleanup, res)) => phase' = phase
       /\ (is_recording /\ phase = "recording") => phase' \notin {"success", "idle"}
       /\ (phase = "processing" /\ phase' \in {"success", "idle"}
              /\ \E t \in Threads : pc[t] \in {"trans", "succ"})
             => \E t \in Threads : pc[t] \in {"trans", "succ"} /\ pc'[t] = Ret(t)]_vars

\* C19: an error raised while a chord is handled does not end the listener:
\* whenever the callback of a listener is left, the listener is reading events
\* again, and after a failed audio.open the controller is not recording.
C19_ChordErrorKeepsListener ==
    [][\A d \in Devices :
          /\ (InController(d) /\ ~InController(d)') => pc'[d] = "listen"
          /\ (pc[d] = "open" /\ pc'[d] \notin {"open", "set"})
                => (pc'[d] = "listen" /\ ~is_recording')]_vars

\* C20: the disconnect of one device ends only its listener: the step changes
\* no other thread, no key state and nothing of the controller or the status,
\* and every other listener that reads events can still take its next event.
C20_DisconnectEndsOneListener ==
    /\ [][\A a \in Devices :
            Disconnect(a) =>
               /\ \A t \in Threads \ {a} : pc'[t] = pc[t]
               /\ UNCHANGED <<mainvars, kbvars, ctlvars, outvars, trayvars>>]_vars
    /\ [](\A a, b \in Devices :
            (a # b /\ pc[a] = "unplugged" /\ pc[b] = "listen")
               => ENABLED (KeyEvent(b, "G", "down") /\ UNCHANGED histvars))

\* device 1 is unplugged and the STANDARD chord, all on device 2, was recognised
C20_Witness ==
    /\ pc[1] = "unplugged" /\ down[1] = {}
    /\ pc[2] = "open" /\ kind[2] = "STANDARD" /\ down[2] = START_STOP_KEYS

\* C21: when discovery finds no keyboard, setup_keyboard_listener leaves the
\* running flag false and starts no listener thread; run() then shows one error
\* notification, stops the tray and returns, and the status is never Recording.
C21_NoKeyboardNoListener ==
    /\ []((pc[MainThread] # "setup" /\ FindKeyboards(devinfo) = {})
            => /\ ~running
               /\ \A d \in Devices : pc[d] = "nothread"
               /\ pc[MainThread] \in {"nokeyboard", "exit"}
               /\ ~is_recording /\ phase # "recording" /\ sessions = 0)
    /\ [][(pc[MainThread] = "nokeyboard" /\ pc'[MainThread] # "nokeyboard")
            => /\ notifications' = notifications + 1
               /\ ~tray_loop'
               /\ pc'[MainThread] = "exit"]_vars

\* run() has returned after a setup that could open no device
C21_Witness ==
    /\ pc[MainThread] = "exit" /\ notifications = 1 /\ ~tray_loop /\ ~running
    /\ devinfo[1].open = "PermissionError" /\ devinfo[2].open = "OSError"

\* C22: the devices setup starts a listener for are exactly the devices that can
\* be opened and queried and report every letter key; a device that raises is
\* skipped and the devices after it are still examined.
C22_KeyboardsReportAllLetters ==
    pc[MainThread] # "setup"
       => {d \in Devices : pc[d] # "nothread"}
             = {d \in Devices : /\ devinfo[d].open = "ok"
                                /\ devinfo[d].query = "ok"
                                /\ Letters \subseteq devinfo[d].keys}

\* C23: once stop has cleared the running flag, a listener that reads an event
\* leaves its loop: no later step changes the pressed set or enters a chord
\* callback, no event is processed, and the flag stays cleared.
C23_StopEndsListeners ==
    /\ [][~running =>
            /\ ~running'
            /\ pressed' = pressed
            /\ \A d \in Devices :
                  pc[d] = "listen" => pc'[d] \in {"listen", "stopped", "unplugged"}]_vars
    /\ [](~running =>
            \A d \in Devices :
               /\ \A k \in Keys, s \in KeyStates :
                     ~ENABLED (KeyEvent(d, k, s) /\ UNCHANGED histvars)
               /\ pc[d] = "listen" => ENABLED (ListenStop(d) /\ UNCHANGED histvars))

\* after stop, listener 1 has left its loop with keys still in the pressed set
C23_Witness ==
    /\ ~running /\ pc[1] = "stopped" /\ pc[2] = "listen"
    /\ pressed = {"LCTRL", "LALT"}

\* C24: a shutdown sets the stop flag of the listeners and cancels the success
\* timer: when the shutdown has stopped the tray the flag is cleared, and once
\* the shutdown has begun no session is opened and no timer changes the status.
C24_ShutdownStopsListenersAndTimer ==
    /\ []((shutdown # "no" /\ ~tray_loop) => ~running)
    /\ [][shutdown # "no" => sessions' = sessions]_vars
    /\ [][(shutdown # "no" /\ \E i \in Timers : TimerThread(i)) => phase' = phase]_vars

\* C25: the entry the copy method menu takes after the user picks number k is
\* the entry that the history menu displayed under number k, also when entries
\* were appended to the history after the menu was displayed.
C25_PickedEntryIsDisplayedEntry ==
    [][\A k \in 1..HistoryWindow : HistoryMenuPick(k) => entry' = recent[k]]_vars

\* C26: a copy of a history entry, by copy_transcript_from_history with a valid
\* index or by the copy method menu, makes exactly one clipboard copy: of the
\* cleaned text when cleanup was asked for and cleanup_transcript returned a
\* non-empty text, of the entry's verbatim text in every other case.
C26_HistoryCopyFallsBackToVerbatim ==
    [][/\ \A index \in -1..MaxSessions, cleanup \in BOOLEAN, res \in CleanupResults :
             (CopyFromHistory(index, cleanup, res)
                /\ 0 <= index /\ index < Len(transcripts))
             => /\ clipboard' = <<IF cleanup /\ res = "text" THEN "clean" ELSE "raw",
                                  transcripts[index + 1]>>
                /\ clips' = clips + 1
       /\ \A improved \in BOOLEAN, res \in CleanupResults :
             CopyMethodCopy(improved, res)
             => /\ clipboard' = <<IF improved /\ res = "text" THEN "clean" ELSE "raw",
                                  entry>>
                /\ clips' = clips + 1]_vars

\* the entry of a session of the CLEANUP chord was copied by its session and
\* then once more from the history, the last copy being the verbatim text
C26_Witness ==
    /\ transcripts = <<1>> /\ reqmode[1] = "CLEANUP" /\ copies = 1 /\ clips = 2
    /\ clipboard = <<"raw", 1>> /\ pc[MainThread] = "terminal" /\ phase = "success"
    /\ pc[1] = "listen"

\* C27: the cleanup decision taken when a session is processed is the mode of
\* the chord that started that session, whatever chord events arrive between
\* its start and the end of its processing.
C27_CleanupModeBelongsToSession ==
    [][\A t \in Threads :
          (pc[t] = "trans" /\ pc'[t] = "succ")
             => cleanup_mode = (reqmode[loc[t]] = "CLEANUP")]_vars

\* C28: a recording thread whose capture loop ends while is_recording is set
\* stops the session itself: after it has cleared the flag, its next step
\* closes the stream and leaves the status Recording, going on to the
\* transcription or to the failure return.
C28_RecordingThreadStopsSession ==
    [][\A r \in Recorders :
          (pc[r] = "fin" /\ pc'[r] # "fin")
             => /\ pc'[r] \in {"trans", "done"}
                /\ stream \notin openStreams'
                /\ phase' # "recording"]_vars

\* C29: when the listener of a device ends at a disconnect its pressed set is
\* cleared, and a callback is invoked only when every key of its chord is down
\* on a device whose listener is still reading events.
C29_DisconnectClearsPressed ==
    [][\A a \in Devices :
          /\ Disconnect(a) => PressedOf(a)' = {}
          /\ (pc[a] = "listen" /\ pc'[a] \in {"start", "stop"})
                => \A k \in (IF kind'[a] = "STANDARD" THEN START_STOP_KEYS
                                                      ELSE CLEANUP_KEYS) :
                      \E d \in Devices : pc'[d] # "unplugged" /\ k \in down'[d]]_vars

\* no chord callback, no stop and no timer callback is in progress
Quiescent ==
    /\ \A t \in Threads : ~InController(t)
    /\ \A i \in Timers : tstate[i] \in {"free", "waiting"}

\* C30: at quiescence the status agrees with the controller: it is Recording
\* if and only if a session is open (is_recording is true).
C30_PhaseAgreesAtQuiescence ==
    Quiescent => (phase = "recording" <=> is_recording)

\* C31: the success status of a session is set only after the session's entry
\* was appended to the history and its text copied: the step by which a stop
\* leaves the transcription stores the entry and makes the copy without setting
\* the status, a failed transcription never leads to success, and the only
\* steps that set the status to success are the last step of such a stop and a
\* copy from the history.
C31_SuccessAfterAppendAndCopy ==
    /\ [][\A t \in Threads :
            /\ (pc[t] = "trans" /\ pc'[t] = "succ")
                  => /\ \E i \in DOMAIN transcripts' : transcripts'[i] = loc[t]
                     /\ clipboard'[2] = loc[t]
                     /\ clips' = clips + 1
                     /\ phase' = phase
            /\ (pc[t] = "trans" /\ pc'[t] \notin {"trans", "succ"})
                  => phase' # "success"]_vars
    /\ [][(phase' = "success" /\ phase # "success")
            => \/ \E t \in Threads : pc[t] = "succ" /\ pc'[t] = Ret(t)
               \/ copies' = copies + 1]_vars
    /\ []((\E t \in Threads : pc[t] = "succ") => (Len(transcripts) > 0 /\ clips > 0))

\* the first session has succeeded: its entry is stored, its text is on the
\* clipboard, the status is success and its timer waits
C31_Witness ==
    /\ phase = "success" /\ timer # 0 /\ transcripts = <<1>> /\ clipboard = <<"raw", 1>>
    /\ clips = 1 /\ copies = 0 /\ pc[1] = "listen" /\ ~is_recording

\* C32: copy_transcript_from_history, for every index and cleanup flag and
\* whether a session is recording, being processed or neither, changes neither
\* the history nor is_recording, cleanup_mode or the recorded frames.
C32_CopyLeavesSessionState ==
    [][\A index \in -1..MaxSessions, cleanup \in BOOLEAN, res \in CleanupResults :
          CopyFromHistory(index, cleanup, res)
             => UNCHANGED <<transcripts, is_recording, cleanup_mode, frames>>]_vars

\* the first entry was copied, cleaned, while the second session was being
\* transcribed
C32_Witness ==
    /\ pc[1] = "trans" /\ loc[1] = 2 /\ phase = "success" /\ copies = 1
    /\ clipboard = <<"clean", 1>> /\ transcripts = <<1>> /\ ~is_recording

====
